---- MODULE Spec2Model ----
(***************************************************************************)
(* Model of src/Simulator.py: the entity registry, the pymunk Space, the   *)
(* pointer drag joint, the camera and the tick of SimulationApp.           *)
(*                                                                         *)
(* The physics integrator is a black box.  The world is cut into cells     *)
(* 0..MaxPos; two shapes whose bodies are in the same cell overlap, a      *)
(* point query in a cell finds every shape of that cell, and one           *)
(* space.step moves every DYNAMIC body of the Space to an arbitrary cell.  *)
(* Cell 0 holds the bottom world boundary segment.                         *)
(***************************************************************************)
EXTENDS Integers, Sequences, FiniteSets, TLC

\* ---------------------------------------------------------------- bounds
MaxSpawns == 2          \* entities constructed in one run
MaxPos == 1             \* world cells are 0..MaxPos
MaxJoints == 2          \* pivot joints constructed in one run
MaxResetSpawns == 3     \* entities constructed in one run that follows resets
MaxInputs == 1          \* key presses and wheel events delivered in one run
MaxPan == 20            \* largest pan offset followed, in world units
MaxAngle == 1           \* body angles are 0..MaxAngle quarter turns

\* ------------------------------------------------------ program constants
COLLISION_TYPE_PLAYER == 1
COLLISION_TYPE_COIN == 2
COLLISION_TYPE_BOUNCER == 3
COLLISION_TYPE_BOX == 4
COLLISION_TYPE_BALL == 5
CoinValue == 10

Cells == 0..MaxPos
Kinds == {"ball", "box", "bouncer", "coin", "player"}
SpawnTags == {"ball", "box", "bouncer", "coin"}
Tags == SpawnTags \cup {"unknown"}             \* "unknown" stands for any other tag
SteerKeys == {"w", "a", "s", "d"}
ArrowKeys == {"left", "right", "up", "down"}
Keys == SteerKeys \cup ArrowKeys
None == 0                                   \* no entity
NoShape == <<>>                             \* None where a shape is expected
NoJoint == [id |-> 0, a |-> "", b |-> 0]    \* None where a joint is expected

\* a force component is a number a + b * sqrt(2), kept as <<a, b>>; a force
\* is a pair of components
Zero == <<0, 0>>
NoForce == <<Zero, Zero>>

VARIABLES
  ent,                  \* every Entity object constructed so far, by id 1..Len(ent)
  entities,             \* self.entities, the live-entity registry (a list of ids)
  all_sprites,          \* self.all_sprites, the pygame sprite group
  space,                \* self.space: [bodies, shapes, constraints, gravity, handlers]
  touching,             \* shape pairs in contact at the end of the last step
  controllable_object,  \* self.controllable_object (None or an id)
  score,                \* self.score
  camera,               \* self.camera: [offset_x, offset_y, zoom]
  pressed_keys,         \* self.pressed_keys
  mouse_body,           \* position of self.mouse_body
  mouse_joint,          \* self.mouse_joint (None or a joint)
  selected_shape_drag,  \* self.selected_shape_drag (None or a shape)
  joints,               \* number of PivotJoint objects constructed so far
  running,              \* self.running
  pc,                   \* position inside update_simulation ("idle" between ticks)
  pending,              \* begin-contacts of the current step not yet dispatched
  inputs,               \* number of key presses and wheel events delivered so far
  err,                  \* the exception raised so far ("" when none)
  stepForce,            \* the force on the controllable body that the last step integrated
  lastOp                \* the operation that produced this state, with what it saw

vars == <<ent, entities, all_sprites, space, touching, controllable_object,
          score, camera, pressed_keys, mouse_body, mouse_joint, selected_shape_drag,
          joints, inputs, running, pc, pending, err, stepForce, lastOp>>

\* what lastOp records: the operation; for a press the cell pressed, the
\* shape the point query returned, whether a joint was made and the drag
\* state before it; for a wheel or pan event the camera before it and the
\* direction; for a spawn the tag; for a tick the score, the registry length and the
\* pending steering force it started with and the coins its step found
\* newly touching the player
NoDrag == [constraints |-> {}, mouse_joint |-> NoJoint, selected_shape_drag |-> NoShape]

NoCamera == [offset_x |-> <<0, 1>>, offset_y |-> <<0, 1>>, zoom |-> 0]

Op(name) ==
  [op |-> name, tag |-> "", at |-> 0, near |-> NoShape, made |-> FALSE, before |-> NoDrag,
   score0 |-> 0, n0 |-> 0, f0 |-> NoForce, hit |-> {},
   cam0 |-> NoCamera, dir |-> 0, pan |-> <<0, 0>>]

\* ------------------------------------------------------------ the Space
Boundaries == {<<0, "Bottom">>, <<0, "Left">>, <<0, "Right">>, <<0, "Top">>}

\* a shape is <<body, geometry>>; body 0 is space.static_body
ShapeBody(s) == s[1]

BodyType(b) == IF b = 0 THEN "STATIC" ELSE ent[b].body_type

ShapeOf(e) == <<e, ent[e].shape>>

RangeOf(s) == {s[i] : i \in 1..Len(s)}

CollisionTypeOf(kind) ==
  CASE kind = "player" -> COLLISION_TYPE_PLAYER
    [] kind = "coin" -> COLLISION_TYPE_COIN
    [] kind = "bouncer" -> COLLISION_TYPE_BOUNCER
    [] kind = "box" -> COLLISION_TYPE_BOX
    [] kind = "ball" -> COLLISION_TYPE_BALL
    [] OTHER -> 0          \* the default of Entity.__init__

\* the boundary segments have collision_type 0
CollisionType(s) == IF ShapeBody(s) = 0 THEN 0 ELSE ent[ShapeBody(s)].collision_type

\* where a shape is: its body's position; the bottom boundary lies in cell 0
ShapesAt(sp, p) ==
  {s \in sp.shapes : IF ShapeBody(s) = 0 THEN s[2] = "Bottom" /\ p = 0
                                         ELSE ent[ShapeBody(s)].pos = p}

\* a world is what kill_entity and Space.remove act on
World == [space |-> space, sprites |-> all_sprites, err |-> err]

\* Space.remove(x) of pymunk asserts that x is in the Space
SpaceRemoveBody(w, b) ==
  IF b \in w.space.bodies THEN [w EXCEPT !.space.bodies = @ \ {b}]
                          ELSE [w EXCEPT !.err = "AssertionError"]

SpaceRemoveShape(w, s) ==
  IF s \in w.space.shapes THEN [w EXCEPT !.space.shapes = @ \ {s}]
                          ELSE [w EXCEPT !.err = "AssertionError"]

SpaceRemoveConstraint(w, c) ==
  IF c \in w.space.constraints THEN [w EXCEPT !.space.constraints = @ \ {c}]
                               ELSE [w EXCEPT !.err = "AssertionError"]

\* ------------------------------------------------------------- entities
\* Entity.__init__: the fields of a new entity of a kind at position p
\* a BouncerEntity constructed with is_static ignored
IsStaticNever(kind) == FALSE

\* the is_static argument each entity class passes to Entity.__init__
IsStatic(kind) == kind = "bouncer"

EntityRecord(kind, p) ==
  [kind |-> kind,
   body_type |-> IF IsStatic(kind) THEN "STATIC" ELSE "DYNAMIC",
   collision_type |-> CollisionTypeOf(kind),
   shape |-> IF kind = "box" THEN "poly" ELSE "circle",
   pos |-> p,
   rect |-> p,
   angle |-> 0,            \* body.angle, in quarter turns
   image |-> 0,            \* rotation of self.image in degrees; 0 is the pristine image
   marked_for_removal |-> FALSE,
   synced |-> FALSE,       \* rect was set from the body in the current tick
   force |-> NoForce,      \* force accumulator of the body
   torque |-> Zero,        \* torque accumulator of the body
   impulse |-> FALSE]      \* an impulse hit the body in the current step

\* Entity.__init__: body and default circle shape go into the Space
EntityInit(sp, e) ==
  [sp EXCEPT !.bodies = @ \cup {e}, !.shapes = @ \cup {<<e, "circle">>}]

\* a BoxEntity.__init__ that leaves the default circle in the Space
BoxEntityInitKeepsCircle(sp, e) ==
  [EntityInit(sp, e) EXCEPT !.shapes = @ \cup {<<e, "poly">>}]

\* BoxEntity.__init__: the default circle is replaced by a box polygon
BoxEntityInit(sp, e) ==
  LET base == EntityInit(sp, e)
      removed == [base EXCEPT !.shapes = @ \ {<<e, "circle">>}]
  IN  [removed EXCEPT !.shapes = @ \cup {<<e, "poly">>}]

Construct(sp, e, kind) ==
  IF kind = "box" THEN BoxEntityInit(sp, e) ELSE EntityInit(sp, e)

\* a kill_entity without the membership tests
KillEntityUnguarded(w, e) ==
  [SpaceRemoveShape(SpaceRemoveBody(w, e), ShapeOf(e)) EXCEPT !.sprites = @ \ {e}]

\* Entity.kill_entity
KillEntity(w, e) ==
  LET w1 == IF e \in w.space.bodies THEN SpaceRemoveBody(w, e) ELSE w
      w2 == IF ShapeOf(e) \in w1.space.shapes THEN SpaceRemoveShape(w1, ShapeOf(e)) ELSE w1
  IN  [w2 EXCEPT !.sprites = @ \ {e}]

\* pygame Sprite.alive(): the sprite belongs to a group
Alive(e) == e \in all_sprites

\* list.remove(x): drops the first x, ValueError when x is absent
RECURSIVE ListRemove(_, _)
ListRemove(s, x) ==
  IF s = <<>> THEN <<>>
  ELSE IF Head(s) = x THEN Tail(s) ELSE <<Head(s)>> \o ListRemove(Tail(s), x)

RECURSIVE KillAll(_, _)
KillAll(w, s) == IF s = <<>> THEN w ELSE KillAll(KillEntity(w, Head(s)), Tail(s))

\* --------------------------------------------------------------- camera
\* zoom is kept in hundredths (1.0 is 100); a pan offset is an exact
\* fraction <<numerator, denominator>> in lowest terms
SCREEN_WIDTH == 1000
SCREEN_HEIGHT == 600
FORCE_MAGNITUDE == 20000
ZOOM_ONE == 100
ZOOM_SPEED == 5
MIN_ZOOM == 20
MAX_ZOOM == 300
PAN_SPEED == 15

Abs(x) == IF x < 0 THEN -x ELSE x

RECURSIVE Gcd(_, _)
Gcd(a, b) == IF b = 0 THEN a ELSE Gcd(b, a % b)

Rat(n, d) ==
  LET g == Gcd(Abs(n), Abs(d))
      s == IF d < 0 THEN -1 ELSE 1
  IN  <<(s * n) \div g, (s * d) \div g>>

Int2Rat(n) == <<n, 1>>

RatAdd(x, y) == Rat(x[1] * y[2] + y[1] * x[2], x[2] * y[2])

Min(a, b) == IF a < b THEN a ELSE b
Max(a, b) == IF a > b THEN a ELSE b

\* Camera.__init__
CameraInit == [offset_x |-> Int2Rat(0), offset_y |-> Int2Rat(0), zoom |-> ZOOM_ONE]

\* a zoom_in that does not clamp
ZoomInUnclamped(cam) == [cam EXCEPT !.zoom = cam.zoom + ZOOM_SPEED]

\* Camera.zoom_in
ZoomIn(cam) == [cam EXCEPT !.zoom = Min(MAX_ZOOM, cam.zoom + ZOOM_SPEED)]

\* Camera.zoom_out
ZoomOut(cam) == [cam EXCEPT !.zoom = Max(MIN_ZOOM, cam.zoom - ZOOM_SPEED)]

\* a pan that adds the view-space delta as it is
PanUnscaled(cam, dx, dy) ==
  [cam EXCEPT !.offset_x = RatAdd(@, Int2Rat(dx)),
              !.offset_y = RatAdd(@, Int2Rat(dy))]

\* Camera.pan: dx / zoom is dx * 100 / (zoom in hundredths)
Pan(cam, dx, dy) ==
  [cam EXCEPT !.offset_x = RatAdd(@, Rat(dx * 100, cam.zoom)),
              !.offset_y = RatAdd(@, Rat(dy * 100, cam.zoom))]

RatNeg(x) == <<-x[1], x[2]>>

RatSub(x, y) == RatAdd(x, RatNeg(y))

RatMul(x, y) == Rat(x[1] * y[1], x[2] * y[2])

\* x / y, y not zero
RatDiv(x, y) == Rat(x[1] * y[2], x[2] * y[1])

RatAbs(x) == <<Abs(x[1]), x[2]>>

RatLeq(x, y) == x[1] * y[2] <= y[1] * x[2]

Sgn(n) == IF n > 0 THEN 1 ELSE IF n < 0 THEN -1 ELSE 0

\* self.zoom as a fraction
ZoomOf(cam) == Rat(cam.zoom, 100)

\* a view whose centre is the origin
ViewCenterOrigin == <<Int2Rat(0), Int2Rat(0)>>

\* (self.width / 2, self.height / 2) of Camera(SCREEN_WIDTH, SCREEN_HEIGHT)
ViewCenter == <<Rat(SCREEN_WIDTH, 2), Rat(SCREEN_HEIGHT, 2)>>

\* one axis of a projection that pans after zooming without scaling the offset
ProjectAxisPanUnscaled(cam, x, off, half) ==
  RatAdd(RatSub(RatMul(x, ZoomOf(cam)), off),
         RatMul(half, RatSub(Int2Rat(1), ZoomOf(cam))))

\* one axis of Camera.apply before the conversion to int:
\* x * zoom - offset * zoom + half * (1 - zoom)
ProjectAxis(cam, x, off, half) ==
  RatAdd(RatSub(RatMul(x, ZoomOf(cam)), RatMul(off, ZoomOf(cam))),
         RatMul(half, RatSub(Int2Rat(1), ZoomOf(cam))))

\* screen_x, screen_y of Camera.apply, as exact fractions
Project(cam, w) ==
  <<ProjectAxis(cam, w[1], cam.offset_x, ViewCenter[1]),
    ProjectAxis(cam, w[2], cam.offset_y, ViewCenter[2])>>

\* int(x) of an exact value: truncation toward zero
Trunc(x) == Sgn(x[1]) * (Abs(x[1]) \div x[2])

\* the float arithmetic of Camera.apply is exact: the zoom is a literal
\* (not a sum of zoom steps) and a multiple of 1/4, and the offsets and the
\* point are whole numbers
FloatExact(cam, w, literal) ==
  /\ literal
  /\ cam.zoom % 25 = 0
  /\ cam.offset_x[2] = 1 /\ cam.offset_y[2] = 1
  /\ w[1][2] = 1 /\ w[2][2] = 1

\* int(x) of the float computed for the exact value x: when x is a whole
\* number and the arithmetic is inexact, the float may fall just short of
\* it and int() then gives the number one nearer to zero
IntOf(x, exact) ==
  IF exact \/ x[2] # 1 THEN {Trunc(x)} ELSE {x[1], x[1] - Sgn(x[1])}

\* Camera.apply: the screen positions it can return for the world point w
Apply(cam, w, literal) ==
  {<<sx, sy>> : sx \in IntOf(Project(cam, w)[1], FloatExact(cam, w, literal)),
                sy \in IntOf(Project(cam, w)[2], FloatExact(cam, w, literal))}

\* one axis of a screen_to_world that forgets the pan offset
UnprojectAxisNoPan(cam, s, off, half) ==
  RatDiv(RatSub(s, RatMul(half, RatSub(Int2Rat(1), ZoomOf(cam)))), ZoomOf(cam))

\* one axis of Camera.screen_to_world:
\* (s - half * (1 - zoom) + offset * zoom) / zoom
UnprojectAxis(cam, s, off, half) ==
  RatDiv(RatAdd(RatSub(s, RatMul(half, RatSub(Int2Rat(1), ZoomOf(cam)))),
                RatMul(off, ZoomOf(cam))),
         ZoomOf(cam))

\* Camera.screen_to_world
ScreenToWorld(cam, s) ==
  <<UnprojectAxis(cam, s[1], cam.offset_x, ViewCenter[1]),
    UnprojectAxis(cam, s[2], cam.offset_y, ViewCenter[2])>>

\* handle_keyboard_input: the pan the held arrow keys ask for
PanDelta(keys) ==
  << (IF "right" \in keys THEN PAN_SPEED ELSE 0) - (IF "left" \in keys THEN PAN_SPEED ELSE 0),
     (IF "down" \in keys THEN PAN_SPEED ELSE 0) - (IF "up" \in keys THEN PAN_SPEED ELSE 0) >>

KeyboardPan(cam, keys) ==
  IF PanDelta(keys) # <<0, 0>> THEN Pan(cam, PanDelta(keys)[1], PanDelta(keys)[2]) ELSE cam

\* ------------------------------------------------------------------ Init
\* _setup_collision_handlers: a handler for the pair PLAYER, COIN and a
\* wildcard handler for BOUNCER, each named by the types it is registered for
PairHandler == {COLLISION_TYPE_PLAYER, COLLISION_TYPE_COIN}
WildcardHandler == {COLLISION_TYPE_BOUNCER}
Handlers == {PairHandler, WildcardHandler}

\* self.space.gravity as __init__ sets it
GravityInit == <<0, 900>>

Init ==
  /\ ent = <<>>
  /\ entities = <<>>
  /\ all_sprites = {}
  /\ space = [bodies |-> {}, shapes |-> Boundaries, constraints |-> {},
              gravity |-> GravityInit, handlers |-> Handlers]
  /\ touching = {}
  /\ controllable_object = None
  /\ score = 0
  /\ camera = CameraInit
  /\ pressed_keys = {}
  /\ mouse_body = 0
  /\ mouse_joint = NoJoint
  /\ selected_shape_drag = NoShape
  /\ joints = 0
  /\ inputs = 0
  /\ running = TRUE
  /\ pc = "idle"
  /\ pending = {}
  /\ err = ""
  /\ stepForce = NoForce
  /\ lastOp = Op("init")

\* ---------------------------------------------------------------- spawns
\* an _add_object_at_pos whose else branch builds an entity all the same
KnownTagAny(tag) == TRUE

\* the if/elif chain of _add_object_at_pos: the tags it builds an entity for
KnownTag(tag) == tag \in SpawnTags

\* no tick is running: the loop waits for its timer ("idle") or has ended
\* ("cancelled"); events are delivered only then
Quiet == pc \in {"idle", "cancelled"}

\* _add_object_at_pos, reached from the Add buttons and, for a ball, from
\* on_right_click, which returns at once unless self.running
AddObjectWithin(max, tag, p) ==
  /\ Quiet
  /\ LET created == KnownTag(tag) /\ (tag = "ball" => running)
         e == Len(ent) + 1
     IN  IF created
           THEN /\ Len(ent) < max
                /\ ent' = Append(ent, EntityRecord(tag, p))
                /\ space' = Construct(space, e, tag)
                /\ all_sprites' = all_sprites \cup {e}
                /\ entities' = Append(entities, e)
           ELSE UNCHANGED <<ent, space, all_sprites, entities>>
  /\ lastOp' = [Op("spawn") EXCEPT !.tag = tag]
  /\ UNCHANGED <<touching, controllable_object, score, camera, pressed_keys, mouse_body,
                 mouse_joint, selected_shape_drag, joints, inputs, running, pc, pending, err,
                 stepForce>>

AddObject(tag, p) == AddObjectWithin(MaxSpawns, tag, p)

\* an add_player_gui that leaves the previous player in place
RetireOldNever(w, reg, old) == [w |-> w, entities |-> reg]

\* add_player_gui, "Remove old one": the world and the registry after it;
\* list.remove raises ValueError when the old player is not registered
RetireOld(w, reg, old) ==
  IF old # None /\ old \in w.sprites
    THEN LET w1 == KillEntity(w, old) IN
           [w |-> IF old \in RangeOf(reg) THEN w1 ELSE [w1 EXCEPT !.err = "ValueError"],
            entities |-> ListRemove(reg, old)]
    ELSE [w |-> w, entities |-> reg]

\* add_player_gui
AddPlayerWithin(max, p) ==
  /\ Quiet
  /\ Len(ent) < max
  /\ LET e == Len(ent) + 1
         r == RetireOld(World, entities, controllable_object)
         w2 == r.w
         reg == r.entities
     IN
       /\ ent' = Append(ent, EntityRecord("player", p))
       /\ space' = Construct(w2.space, e, "player")
       /\ all_sprites' = w2.sprites \cup {e}
       /\ entities' = Append(reg, e)
       /\ controllable_object' = e
       /\ err' = w2.err
  /\ lastOp' = [Op("spawn") EXCEPT !.tag = "player"]
  /\ UNCHANGED <<touching, score, camera, pressed_keys, mouse_body,
                 mouse_joint, selected_shape_drag, joints, inputs, running, pc, pending,
                 stepForce>>

AddPlayer(p) == AddPlayerWithin(MaxSpawns, p)

\* -------------------------------------------------------------- pointer
\* Space.point_query_nearest(world_pos, 0, ShapeFilter()): the shapes that
\* contain the point; which of several is nearest depends on the exact
\* geometry, so every one of them is a possible answer
PointQueryNearest(sp, p) ==
  IF ShapesAt(sp, p) = {} THEN {NoShape} ELSE ShapesAt(sp, p)

\* an on_mouse_press that drags whatever shape the query returns
IsDraggableAny(hit) == hit # NoShape

\* the condition of on_mouse_press on the query result
IsDraggable(hit) == hit # NoShape /\ BodyType(ShapeBody(hit)) = "DYNAMIC"

\* pymunk.PivotJoint(self.mouse_body, body, ...)
PivotJoint(n, b) == [id |-> n, a |-> "mouse_body", b |-> b]

\* the drag state on_mouse_press and on_mouse_release work on
Drag == [space |-> space, mouse_joint |-> mouse_joint,
         selected_shape_drag |-> selected_shape_drag, err |-> err]

\* the part of it lastOp keeps
DragState ==
  [constraints |-> space.constraints, mouse_joint |-> mouse_joint,
   selected_shape_drag |-> selected_shape_drag]

\* on_mouse_press with the query result hit
MousePress(d, hit, n) ==
  IF running /\ IsDraggable(hit)
    THEN [d EXCEPT !.selected_shape_drag = hit,
                   !.space.constraints = @ \cup {PivotJoint(n, ShapeBody(hit))},
                   !.mouse_joint = PivotJoint(n, ShapeBody(hit))]
    ELSE d

OnMousePress(p) ==
  /\ Quiet
  /\ \E hit \in PointQueryNearest(space, p) :
       LET d == MousePress(Drag, hit, joints + 1)
           made == running /\ IsDraggable(hit)
       IN  /\ made => joints < MaxJoints
           /\ space' = d.space
           /\ mouse_joint' = d.mouse_joint
           /\ selected_shape_drag' = d.selected_shape_drag
           /\ joints' = IF made THEN joints + 1 ELSE joints
           /\ lastOp' = [Op("press") EXCEPT
                          !.at = p, !.near = hit, !.made = made,
                          !.before = DragState]
  /\ UNCHANGED <<ent, entities, all_sprites, touching, controllable_object, score,
                 camera, pressed_keys, mouse_body, inputs, running, pc, pending, err,
                 stepForce>>

\* an on_mouse_release that forgets the joint and keeps the selected shape
MouseReleaseKeepsShape(d) ==
  IF ~running \/ d.mouse_joint = NoJoint
    THEN d
    ELSE IF d.mouse_joint \in d.space.constraints
      THEN LET w == SpaceRemoveConstraint([space |-> d.space, err |-> d.err], d.mouse_joint)
           IN  [d EXCEPT !.space = w.space, !.err = w.err, !.mouse_joint = NoJoint]
      ELSE d

\* on_mouse_release
MouseRelease(d) ==
  IF ~running \/ d.mouse_joint = NoJoint
    THEN d
    ELSE IF d.mouse_joint \in d.space.constraints
      THEN LET w == SpaceRemoveConstraint([space |-> d.space, err |-> d.err], d.mouse_joint)
           IN  [d EXCEPT !.space = w.space, !.err = w.err,
                         !.mouse_joint = NoJoint, !.selected_shape_drag = NoShape]
      ELSE d

OnMouseRelease ==
  /\ Quiet
  /\ LET d == MouseRelease(Drag) IN
       /\ space' = d.space
       /\ mouse_joint' = d.mouse_joint
       /\ selected_shape_drag' = d.selected_shape_drag
       /\ err' = d.err
  /\ lastOp' = [Op("release") EXCEPT !.before = DragState]
  /\ UNCHANGED <<ent, entities, all_sprites, touching, controllable_object, score,
                 camera, pressed_keys, mouse_body, joints, inputs, running, pc, pending,
                 stepForce>>

\* on_mouse_motion
OnMouseMotion(p) ==
  /\ Quiet
  /\ mouse_body' = IF running THEN p ELSE mouse_body
  /\ lastOp' = Op("motion")
  /\ UNCHANGED <<ent, entities, all_sprites, space, touching, controllable_object,
                 score, camera, pressed_keys, mouse_joint, selected_shape_drag, joints,
                 inputs, running, pc, pending, err, stepForce>>

\* on_mouse_wheel: the camera after it; direction > 0 (or event.delta > 0)
\* zooms in
MouseWheel(cam, direction) ==
  IF ~running THEN cam
  ELSE IF direction > 0 THEN ZoomIn(cam) ELSE ZoomOut(cam)

OnMouseWheel(direction) ==
  /\ Quiet
  /\ inputs < MaxInputs
  /\ inputs' = inputs + 1
  /\ camera' = MouseWheel(camera, direction)
  /\ lastOp' = [Op("wheel") EXCEPT !.cam0 = camera, !.dir = direction]
  /\ UNCHANGED <<ent, entities, all_sprites, space, touching, controllable_object,
                 score, pressed_keys, mouse_body, mouse_joint, selected_shape_drag,
                 joints, running, pc, pending, err, stepForce>>

\* on_mouse_wheel where only the camera is followed: the zoom levels are
\* finitely many, so the event needs no budget
CameraWheel(direction) ==
  /\ Quiet
  /\ camera' = MouseWheel(camera, direction)
  /\ lastOp' = [Op("wheel") EXCEPT !.cam0 = camera, !.dir = direction]
  /\ UNCHANGED <<ent, entities, all_sprites, space, touching, controllable_object,
                 score, pressed_keys, mouse_body, mouse_joint, selected_shape_drag,
                 joints, inputs, running, pc, pending, err, stepForce>>

\* camera.pan as handle_keyboard_input calls it with the arrow keys in
\* keys held, taken on its own
CameraPan(keys) ==
  /\ Quiet
  /\ running
  /\ inputs < MaxInputs
  /\ inputs' = inputs + 1
  /\ camera' = KeyboardPan(camera, keys)
  /\ lastOp' = [Op("pan") EXCEPT !.cam0 = camera, !.pan = PanDelta(keys)]
  /\ UNCHANGED <<ent, entities, all_sprites, space, touching, controllable_object,
                 score, pressed_keys, mouse_body, mouse_joint, selected_shape_drag,
                 joints, running, pc, pending, err, stepForce>>

\* ------------------------------------------------------------- keyboard
\* on_key_press
OnKeyPress(k) ==
  /\ Quiet
  /\ inputs < MaxInputs
  /\ inputs' = inputs + 1
  /\ pressed_keys' = pressed_keys \cup {k}
  /\ lastOp' = Op("key")
  /\ UNCHANGED <<ent, entities, all_sprites, space, touching, controllable_object,
                 score, camera, mouse_body, mouse_joint, selected_shape_drag, joints,
                 running, pc, pending, err, stepForce>>

\* on_key_release: the KeyError of an absent key is caught
OnKeyRelease(k) ==
  /\ Quiet
  /\ pressed_keys' = pressed_keys \ {k}
  /\ lastOp' = Op("key")
  /\ UNCHANGED <<ent, entities, all_sprites, space, touching, controllable_object,
                 score, camera, mouse_body, mouse_joint, selected_shape_drag, joints,
                 inputs, running, pc, pending, err, stepForce>>

\* on_key_press of a steering key not held; the sets of keys held are
\* finitely many, so the event needs no budget
SteerKeyPress(k) ==
  /\ Quiet
  /\ k \notin pressed_keys
  /\ pressed_keys' = pressed_keys \cup {k}
  /\ lastOp' = Op("key")
  /\ UNCHANGED <<ent, entities, all_sprites, space, touching, controllable_object,
                 score, camera, mouse_body, mouse_joint, selected_shape_drag, joints,
                 inputs, running, pc, pending, err, stepForce>>

\* on_key_release of a steering key held
SteerKeyRelease(k) ==
  /\ Quiet
  /\ k \in pressed_keys
  /\ pressed_keys' = pressed_keys \ {k}
  /\ lastOp' = Op("key")
  /\ UNCHANGED <<ent, entities, all_sprites, space, touching, controllable_object,
                 score, camera, mouse_body, mouse_joint, selected_shape_drag, joints,
                 inputs, running, pc, pending, err, stepForce>>

\* --------------------------------------------------------------- gravity
\* the slider positions followed: the start of each slider and its upper end
GravityXValues == {0, 1000}
GravityYValues == {900, 2000}

\* update_gravity_x
UpdateGravityX(value) ==
  /\ Quiet
  /\ space' = [space EXCEPT !.gravity = <<value, space.gravity[2]>>]
  /\ lastOp' = Op("gravity")
  /\ UNCHANGED <<ent, entities, all_sprites, touching, controllable_object, score,
                 camera, pressed_keys, mouse_body, mouse_joint, selected_shape_drag,
                 joints, inputs, running, pc, pending, err, stepForce>>

\* update_gravity_y
UpdateGravityY(value) ==
  /\ Quiet
  /\ space' = [space EXCEPT !.gravity = <<space.gravity[1], value>>]
  /\ lastOp' = Op("gravity")
  /\ UNCHANGED <<ent, entities, all_sprites, touching, controllable_object, score,
                 camera, pressed_keys, mouse_body, mouse_joint, selected_shape_drag,
                 joints, inputs, running, pc, pending, err, stepForce>>

\* ---------------------------------------------------------------- reset
\* a reset_simulation that leaves the camera as it is
ResetKeepsCamera(w, reg, cam) ==
  [w |-> KillAll(w, reg), entities |-> <<>>, controllable_object |-> None,
   score |-> 0, camera |-> cam]

\* a reset_simulation that replaces the Space by a new pymunk.Space()
ResetNewSpace(w, reg, cam) ==
  [w |-> [KillAll(w, reg) EXCEPT !.space = [bodies |-> {}, shapes |-> {},
                                             constraints |-> {}, gravity |-> <<0, 0>>,
                                             handlers |-> {}]],
   entities |-> <<>>, controllable_object |-> None, score |-> 0,
   camera |-> [cam EXCEPT !.offset_x = Int2Rat(0), !.offset_y = Int2Rat(0),
                          !.zoom = ZOOM_ONE]]

\* a reset_simulation that leaves the score as it is
ResetKeepsScore(w, reg, cam) ==
  [w |-> KillAll(w, reg), entities |-> <<>>, controllable_object |-> None,
   score |-> score,
   camera |-> [cam EXCEPT !.offset_x = Int2Rat(0), !.offset_y = Int2Rat(0),
                          !.zoom = ZOOM_ONE]]

\* reset_simulation: [w, entities, controllable_object, score, camera] after it
Reset(w, reg, cam) ==
  [w |-> KillAll(w, reg),
   entities |-> <<>>,
   controllable_object |-> None,
   score |-> 0,
   camera |-> [cam EXCEPT !.offset_x = Int2Rat(0), !.offset_y = Int2Rat(0),
                          !.zoom = ZOOM_ONE]]

ResetSimulation ==
  /\ Quiet
  /\ LET r == Reset(World, entities, camera) IN
       /\ space' = r.w.space
       /\ all_sprites' = r.w.sprites
       /\ err' = r.w.err
       /\ entities' = r.entities
       /\ controllable_object' = r.controllable_object
       /\ score' = r.score
       /\ camera' = r.camera
  /\ lastOp' = Op("reset")
  /\ UNCHANGED <<ent, touching, pressed_keys, mouse_body, mouse_joint,
                 selected_shape_drag, joints, inputs, running, pc, pending, stepForce>>

\* Entity.kill_entity called once more on an entity that was removed before
KillEntityAgain(e) ==
  /\ Quiet
  /\ e \in 1..Len(ent)
  /\ e \notin RangeOf(entities)
  /\ LET w == KillEntity(World, e) IN
       /\ space' = w.space
       /\ all_sprites' = w.sprites
       /\ err' = w.err
  /\ lastOp' = Op("kill_entity")
  /\ UNCHANGED <<ent, entities, touching, controllable_object, score, camera,
                 pressed_keys, mouse_body, mouse_joint, selected_shape_drag, joints,
                 inputs, running, pc, pending, stepForce>>

\* ----------------------------------------------------------------- tick
\* an update_simulation that steps the Space after the input blocks
TickOrderInputFirst == <<"keys", "steer", "step", "sweep", "draw">>

\* update_simulation runs these blocks in this order; "step" is
\* space.step(TIME_STEP), "keys" is handle_keyboard_input(), "steer" the
\* W/A/S/D block, "sweep" the update loop and "draw" the render
TickOrder == <<"step", "keys", "steer", "sweep", "draw">>

IndexOf(ph) == CHOOSE i \in 1..Len(TickOrder) : TickOrder[i] = ph

After(ph) == IF IndexOf(ph) = Len(TickOrder) THEN "idle" ELSE TickOrder[IndexOf(ph) + 1]

\* the model follows the camera while its pan offset is within MaxPan world units
InPanRange(cam) ==
  /\ Abs(cam.offset_x[1]) <= MaxPan * cam.offset_x[2]
  /\ Abs(cam.offset_y[1]) <= MaxPan * cam.offset_y[2]

\* an update_simulation that does not look at self.running
AtIgnoringRunning(ph) ==
  IF pc = "idle"
    THEN TickOrder[1] = ph /\ InPanRange(KeyboardPan(camera, pressed_keys))
    ELSE pc = ph

\* control is at block ph: inside a tick, or at its top, where
\* update_simulation returns unless self.running
At(ph) ==
  IF pc = "idle"
    THEN running /\ TickOrder[1] = ph /\ InPanRange(KeyboardPan(camera, pressed_keys))
    ELSE pc = ph

\* the force accumulated on the body of the live controllable entity
PendingForce ==
  IF controllable_object # None /\ controllable_object \in space.bodies
    THEN ent[controllable_object].force ELSE NoForce

\* what lastOp holds during a tick
TickRecord ==
  IF pc = "idle"
    THEN [Op("tick") EXCEPT !.score0 = score, !.n0 = Len(entities),
                            !.f0 = PendingForce]
    ELSE lastOp

DynamicBodies(sp) == {b \in sp.bodies : ent[b].body_type = "DYNAMIC"}

CellOf(s, e) == IF ShapeBody(s) = 0 THEN 0 ELSE e[ShapeBody(s)].pos

InCell(s) == ShapeBody(s) # 0 \/ s[2] = "Bottom"

\* the shape pairs the collision detection of space.step reports: both in
\* the Space, overlapping, and not both on a STATIC body
Contacts(sp, e) ==
  {c \in SUBSET sp.shapes :
     /\ Cardinality(c) = 2
     /\ \A s \in c : InCell(s)
     /\ \A s, u \in c : CellOf(s, e) = CellOf(u, e)
     /\ \E s \in c : BodyType(ShapeBody(s)) = "DYNAMIC"}

TypesOf(c) == {CollisionType(s) : s \in c}

\* the coins among a set of contacts that touch the player
CoinsTouchingPlayer(cs) ==
  {ShapeBody(s) : s \in {u \in UNION {c \in cs : TypesOf(c) = {COLLISION_TYPE_PLAYER,
                                                              COLLISION_TYPE_COIN}} :
                          CollisionType(u) = COLLISION_TYPE_COIN}}

\* the angles a body can have, in quarter turns
Angles == 0..MaxAngle

\* what space.step does up to its collision detection when the DYNAMIC
\* bodies come to the cells np and the angles na: every new contact is
\* queued for its begin callback
Integrate(np, na) ==
  LET moved == [e \in DOMAIN ent |->
                  IF e \in DOMAIN np
                    THEN [ent[e] EXCEPT !.pos = np[e], !.angle = na[e]] ELSE ent[e]]
      now == Contacts(space, moved)
  IN  /\ ent' = moved
      /\ touching' = now
      /\ pending' = now \ touching
      /\ lastOp' = [TickRecord EXCEPT !.hit = CoinsTouchingPlayer(now \ touching)]

\* space.step(TIME_STEP) up to its collision detection: positions are
\* integrated and every new contact is queued for its begin callback; the
\* bodies are followed without their rotation
PhysicsStep ==
  /\ At("step")
  /\ \E np \in [DynamicBodies(space) -> Cells] :
       Integrate(np, [e \in DynamicBodies(space) |-> ent[e].angle])
  /\ pc' = "contacts"
  /\ UNCHANGED <<entities, all_sprites, space, controllable_object, score, camera,
                 pressed_keys, mouse_body, mouse_joint, selected_shape_drag, joints,
                 inputs, running, err, stepForce>>

\* space.step(TIME_STEP) up to its collision detection, with the rotation
\* of the bodies
PhysicsStepTurning ==
  /\ At("step")
  /\ \E np \in [DynamicBodies(space) -> Cells], na \in [DynamicBodies(space) -> Angles] :
       Integrate(np, na)
  /\ pc' = "contacts"
  /\ UNCHANGED <<entities, all_sprites, space, controllable_object, score, camera,
                 pressed_keys, mouse_body, mouse_joint, selected_shape_drag, joints,
                 inputs, running, err, stepForce>>

\* what a begin callback may change, and its return value (FALSE until a
\* callback has returned True)
Handled ==
  [ent |-> ent, score |-> score, w |-> World, entities |-> entities, accept |-> FALSE]

\* an on_collected that adds the value and leaves the coin unmarked
OnCollectedNoMark(h, e) == [h EXCEPT !.score = @ + CoinValue]

\* CoinEntity.on_collected
OnCollected(h, e) ==
  [h EXCEPT !.score = @ + CoinValue, !.ent[e].marked_for_removal = TRUE]

\* a player_collect_coin_begin that removes the coin inside the callback
PlayerCollectCoinBeginKills(h, c) ==
  LET coin == ShapeBody(CHOOSE s \in c : CollisionType(s) = COLLISION_TYPE_COIN) IN
    [OnCollected(h, coin) EXCEPT !.w = KillEntity(h.w, coin),
                                 !.entities = ListRemove(h.entities, coin),
                                 !.accept = TRUE]

\* player_collect_coin_begin: arbiter.shapes is (player shape, coin shape)
PlayerCollectCoinBegin(h, c) ==
  LET coin_shape == CHOOSE s \in c : CollisionType(s) = COLLISION_TYPE_COIN IN
    IF ent[ShapeBody(coin_shape)].kind = "coin"
      THEN [OnCollected(h, ShapeBody(coin_shape)) EXCEPT !.accept = TRUE]
      ELSE [h EXCEPT !.accept = TRUE]

\* an on_collision that kicks the other body whatever its type
OnCollisionAny(h, other_shape) ==
  IF ShapeBody(other_shape) # 0
    THEN [h EXCEPT !.ent[ShapeBody(other_shape)].impulse = TRUE]
    ELSE h

\* BouncerEntity.on_collision
OnCollision(h, other_shape) ==
  IF BodyType(ShapeBody(other_shape)) = "DYNAMIC"
    THEN [h EXCEPT !.ent[ShapeBody(other_shape)].impulse = TRUE]
    ELSE h

\* hasattr(shape, 'parent_sprite'): the boundary segments have none
HasParentSprite(s) == ShapeBody(s) # 0

\* a bouncer_interaction_begin that takes the first shape for the bouncer
BouncerInteractionBeginNoSwap(h, shapes) ==
  IF HasParentSprite(shapes[1]) /\ ent[ShapeBody(shapes[1])].kind = "bouncer"
    THEN [OnCollision(h, shapes[2]) EXCEPT !.accept = TRUE]
    ELSE [h EXCEPT !.accept = TRUE]

\* bouncer_interaction_begin: shapes is arbiter.shapes
BouncerInteractionBegin(h, shapes) ==
  LET swap == CollisionType(shapes[1]) # COLLISION_TYPE_BOUNCER
      bouncer_shape == IF swap THEN shapes[2] ELSE shapes[1]
      other_shape == IF swap THEN shapes[1] ELSE shapes[2]
  IN  IF HasParentSprite(bouncer_shape) /\ ent[ShapeBody(bouncer_shape)].kind = "bouncer"
        THEN [OnCollision(h, other_shape) EXCEPT !.accept = TRUE]
        ELSE [h EXCEPT !.accept = TRUE]

\* the two orders arbiter.shapes can list the shapes of a contact in
Orders(c) == {o \in c \X c : o[1] # o[2]}

\* a dispatch that runs the coin callback for every contact of a coin
DispatchAnyCoin(h, shapes) ==
  IF COLLISION_TYPE_COIN \in TypesOf({shapes[1], shapes[2]})
    THEN PlayerCollectCoinBegin(h, {shapes[1], shapes[2]})
    ELSE IF COLLISION_TYPE_BOUNCER \in TypesOf({shapes[1], shapes[2]})
      THEN BouncerInteractionBegin(h, shapes)
      ELSE [h EXCEPT !.accept = TRUE]

\* the handler _setup_collision_handlers registers for a pair of collision
\* types; a pair without one gets the default, which accepts
Dispatch(h, shapes) ==
  IF /\ TypesOf({shapes[1], shapes[2]}) = PairHandler
     /\ PairHandler \in h.w.space.handlers
    THEN PlayerCollectCoinBegin(h, {shapes[1], shapes[2]})
    ELSE IF /\ COLLISION_TYPE_BOUNCER \in TypesOf({shapes[1], shapes[2]})
            /\ WildcardHandler \in h.w.space.handlers
      THEN BouncerInteractionBegin(h, shapes)
      ELSE [h EXCEPT !.accept = TRUE]

\* the begin callbacks of one step run one after the other; they commute
\* (each adds to the score, marks its own coin or kicks its own body), so
\* one order stands for all
NextContact == CHOOSE c \in pending : TRUE

\* one begin callback, inside space.step
HandleBegin ==
  /\ pc = "contacts"
  /\ pending # {}
  /\ \E shapes \in Orders(NextContact) :
       LET h == Dispatch(Handled, shapes) IN
       /\ ent' = h.ent
       /\ touching' = IF h.accept THEN touching ELSE touching \ {NextContact}
       /\ score' = h.score
       /\ space' = h.w.space
       /\ all_sprites' = h.w.sprites
       /\ err' = h.w.err
       /\ entities' = h.entities
  /\ pending' = pending \ {NextContact}
  /\ UNCHANGED <<controllable_object, camera, pressed_keys, mouse_body,
                 mouse_joint, selected_shape_drag, joints, inputs, running, pc,
                 stepForce, lastOp>>

\* the rest of space.step: forces and impulses are integrated into the
\* velocities and the force accumulators are cleared
StepReturn ==
  /\ pc = "contacts"
  /\ pending = {}
  /\ stepForce' = PendingForce
  /\ ent' = [e \in DOMAIN ent |->
               IF e \in space.bodies
                 THEN [ent[e] EXCEPT !.force = NoForce, !.torque = Zero,
                                     !.impulse = FALSE]
                 ELSE ent[e]]
  /\ pc' = After("step")
  /\ UNCHANGED <<entities, all_sprites, space, touching, controllable_object, score,
                 camera, pressed_keys, mouse_body, mouse_joint, selected_shape_drag,
                 joints, inputs, running, pending, err, lastOp>>

\* handle_keyboard_input
HandleKeyboardInput ==
  /\ At("keys")
  /\ camera' = KeyboardPan(camera, pressed_keys)
  /\ pc' = After("keys")
  /\ lastOp' = TickRecord
  /\ UNCHANGED <<ent, entities, all_sprites, space, touching, controllable_object,
                 score, pressed_keys, mouse_body, mouse_joint, selected_shape_drag,
                 joints, inputs, running, pending, err, stepForce>>

\* the direction the W/A/S/D block of update_simulation computes
ForceDir(keys) ==
  << (IF "d" \in keys THEN 1 ELSE 0) - (IF "a" \in keys THEN 1 ELSE 0),
     (IF "s" \in keys THEN 1 ELSE 0) - (IF "w" \in keys THEN 1 ELSE 0) >>

\* a normalisation that leaves the direction as it is
NormalizeNone(dir) == <<<<dir[1], 1>>, <<dir[2], 1>>>>

\* force_dir[i] /= length, with length = math.sqrt(dx ** 2 + dy ** 2): a
\* component d / sqrt(n) is kept as <<d, n>>; dir is not <<0, 0>>
Normalize(dir) ==
  LET n == dir[1] * dir[1] + dir[2] * dir[2]
  IN  <<<<dir[1], n>>, <<dir[2], n>>>>

\* direction_vector[i] * self.force_magnitude for a component d / sqrt(n),
\* n being 1 or 2: d * m, or d * m / sqrt(2) = (d * m / 2) * sqrt(2)
Scale(c, m) == IF c[2] = 1 THEN <<c[1] * m, 0>> ELSE <<0, (c[1] * m) \div 2>>

SurdAdd(x, y) == <<x[1] + y[1], x[2] + y[2]>>

SurdSub(x, y) == <<x[1] - y[1], x[2] - y[2]>>

ForceAdd(f, g) == <<SurdAdd(f[1], g[1]), SurdAdd(f[2], g[2])>>

\* the torque of force f applied at the body-local point pt
Cross(pt, f) ==
  <<pt[1] * f[2][1] - pt[2] * f[1][1], pt[1] * f[2][2] - pt[2] * f[1][2]>>

\* the (0, 0) of apply_force_at_local_point((force_x, force_y), (0, 0))
LocalOrigin == <<0, 0>>

\* (force_x, force_y) of ControllableEntity.apply_force
ForceOf(direction_vector) ==
  <<Scale(direction_vector[1], FORCE_MAGNITUDE), Scale(direction_vector[2], FORCE_MAGNITUDE)>>

\* ControllableEntity.apply_force: the force goes to the accumulators of
\* the body, at its local origin
ApplyForce(e, direction_vector) ==
  [ent EXCEPT ![e].force = ForceAdd(@, ForceOf(direction_vector)),
              ![e].torque = SurdAdd(@, Cross(LocalOrigin, ForceOf(direction_vector)))]

\* the force the W/A/S/D block applies for the keys held
SteeringForce(keys) ==
  IF ForceDir(keys) = <<0, 0>> THEN NoForce ELSE ForceOf(Normalize(ForceDir(keys)))

\* update_simulation, "Move controllable object with WASD"
Steer ==
  /\ At("steer")
  /\ IF controllable_object # None /\ Alive(controllable_object)
          /\ ForceDir(pressed_keys) # <<0, 0>>
       THEN ent' = ApplyForce(controllable_object, Normalize(ForceDir(pressed_keys)))
       ELSE UNCHANGED ent
  /\ pc' = After("steer")
  /\ lastOp' = TickRecord
  /\ UNCHANGED <<entities, all_sprites, space, touching, controllable_object, score,
                 camera, pressed_keys, mouse_body, mouse_joint, selected_shape_drag,
                 joints, inputs, running, pending, err, stepForce>>

\* pygame.transform.rotate(pristine, -math.degrees(angle)): the rotation of
\* the image, in degrees, for an angle in quarter turns
Rotate(angle) == -(90 * angle)

\* an Entity.update that synchronises the rect before it looks at the flag
EntityUpdateSyncFirst(w, e) ==
  [w |-> IF ent[e].marked_for_removal THEN KillEntity(w, e) ELSE w,
   rect |-> IF ent[e].body_type = "DYNAMIC" THEN ent[e].pos ELSE ent[e].rect,
   image |-> IF ent[e].body_type = "DYNAMIC" THEN Rotate(ent[e].angle) ELSE ent[e].image,
   synced |-> ent[e].body_type = "DYNAMIC"]

\* an Entity.update that moves the rect and keeps the image as it is
EntityUpdateNoRotate(w, e) ==
  IF ent[e].marked_for_removal
    THEN [w |-> KillEntity(w, e), rect |-> ent[e].rect, image |-> ent[e].image,
          synced |-> FALSE]
    ELSE IF ent[e].body_type = "DYNAMIC"
      THEN [w |-> w, rect |-> ent[e].pos, image |-> ent[e].image, synced |-> TRUE]
      ELSE [w |-> w, rect |-> ent[e].rect, image |-> ent[e].image, synced |-> FALSE]

\* Entity.update of entity e in world w: the world, the rect, the image and
\* whether the rect was synchronised from the body
EntityUpdate(w, e) ==
  IF ent[e].marked_for_removal
    THEN [w |-> KillEntity(w, e), rect |-> ent[e].rect, image |-> ent[e].image,
          synced |-> FALSE]
    ELSE IF ent[e].body_type = "DYNAMIC"
      THEN [w |-> w, rect |-> ent[e].pos, image |-> Rotate(ent[e].angle), synced |-> TRUE]
      ELSE [w |-> w, rect |-> ent[e].rect, image |-> ent[e].image, synced |-> FALSE]

\* update_simulation, "Update all sprites": the loop over list(self.entities)
RECURSIVE SweepLoop(_, _)
SweepLoop(st, todo) ==
  IF todo = <<>> THEN st
  ELSE LET e == Head(todo)
           u == EntityUpdate(st.w, e)
           reg == IF ent[e].marked_for_removal /\ e \in RangeOf(st.reg)
                    THEN ListRemove(st.reg, e) ELSE st.reg
       IN  SweepLoop([w |-> u.w, reg |-> reg,
                      rects |-> [st.rects EXCEPT ![e] = u.rect],
                      images |-> [st.images EXCEPT ![e] = u.image],
                      synced |-> [st.synced EXCEPT ![e] = u.synced]], Tail(todo))

Sweep ==
  /\ At("sweep")
  /\ LET st == SweepLoop([w |-> World, reg |-> entities,
                          rects |-> [e \in DOMAIN ent |-> ent[e].rect],
                          images |-> [e \in DOMAIN ent |-> ent[e].image],
                          synced |-> [e \in DOMAIN ent |-> FALSE]], entities)
     IN  /\ space' = st.w.space
         /\ all_sprites' = st.w.sprites
         /\ err' = st.w.err
         /\ entities' = st.reg
         /\ ent' = [e \in DOMAIN ent |->
                      [ent[e] EXCEPT !.rect = st.rects[e], !.image = st.images[e],
                                     !.synced = st.synced[e]]]
  /\ pc' = After("sweep")
  /\ lastOp' = TickRecord
  /\ UNCHANGED <<touching, controllable_object, score, camera, pressed_keys,
                 mouse_body, mouse_joint, selected_shape_drag, joints, inputs, running,
                 pending, stepForce>>

\* update_simulation, "Draw all sprites": the entities Entity.draw blits
\* (it returns early unless alive())
Drawn == {e \in RangeOf(entities) : Alive(e)}

Draw ==
  /\ At("draw")
  /\ pc' = After("draw")
  /\ lastOp' = TickRecord
  /\ UNCHANGED <<ent, entities, all_sprites, space, touching, controllable_object,
                 score, camera, pressed_keys, mouse_body, mouse_joint,
                 selected_shape_drag, joints, inputs, running, pending, err, stepForce>>

\* update_simulation when self.running is false: it returns at once,
\* before self.after(10, ...), so no further tick is scheduled
TickStopped ==
  /\ pc = "idle"
  /\ ~running
  /\ pc' = "cancelled"
  /\ lastOp' = Op("tick")
  /\ UNCHANGED <<ent, entities, all_sprites, space, touching, controllable_object,
                 score, camera, pressed_keys, mouse_body, mouse_joint,
                 selected_shape_drag, joints, inputs, running, pending, err, stepForce>>

\* the owner of the application clears self.running; no statement of the
\* program does
Stop ==
  /\ Quiet
  /\ running
  /\ running' = FALSE
  /\ lastOp' = Op("stop")
  /\ UNCHANGED <<ent, entities, all_sprites, space, touching, controllable_object,
                 score, camera, pressed_keys, mouse_body, mouse_joint,
                 selected_shape_drag, joints, inputs, pc, pending, err, stepForce>>

\* ----------------------------------------------------- the specifications
Tick ==
  \/ PhysicsStep
  \/ HandleBegin
  \/ StepReturn
  \/ HandleKeyboardInput
  \/ Steer
  \/ Sweep
  \/ Draw

\* entities, pointer drag and ticks; no key is pressed and the wheel is still
Next ==
  \/ \E tag \in SpawnTags, p \in Cells : AddObject(tag, p)
  \/ \E p \in Cells : AddPlayer(p)
  \/ \E p \in Cells : OnMousePress(p)
  \/ OnMouseRelease
  \/ \E p \in Cells : OnMouseMotion(p)
  \/ ResetSimulation
  \/ \E e \in 1..MaxSpawns : KillEntityAgain(e)
  \/ Tick

Spec == Init /\ [][Next]_vars

\* entities and ticks driven by the keyboard and the wheel; nothing is dragged
NextInput ==
  \/ \E tag \in Tags, p \in Cells : AddObject(tag, p)
  \/ \E p \in Cells : AddPlayer(p)
  \/ \E k \in Keys : OnKeyPress(k)
  \/ \E k \in Keys : OnKeyRelease(k)
  \/ \E direction \in {-1, 1} : OnMouseWheel(direction)
  \/ ResetSimulation
  \/ Tick

SpecInput == Init /\ [][NextInput]_vars

\* the Camera object alone: wheel events, pans and resets
NextCamera ==
  \/ \E direction \in {-1, 1} : CameraWheel(direction)
  \/ \E keys \in SUBSET ArrowKeys : CameraPan(keys)
  \/ ResetSimulation

SpecCamera == Init /\ [][NextCamera]_vars

\* the pointer events and the loop, with the running flag cleared at some
\* point; a right click asks for a ball
NextStopped ==
  \/ \E tag \in {"ball", "box"}, p \in Cells : AddObject(tag, p)
  \/ \E p \in Cells : OnMousePress(p)
  \/ OnMouseRelease
  \/ \E p \in Cells : OnMouseMotion(p)
  \/ \E direction \in {-1, 1} : OnMouseWheel(direction)
  \/ Tick
  \/ TickStopped
  \/ Stop

SpecStopped == Init /\ [][NextStopped]_vars

\* entities and ticks whose physics step also turns the bodies
TickTurning ==
  \/ PhysicsStepTurning
  \/ HandleBegin
  \/ StepReturn
  \/ HandleKeyboardInput
  \/ Steer
  \/ Sweep
  \/ Draw

NextSync ==
  \/ \E tag \in SpawnTags, p \in Cells : AddObject(tag, p)
  \/ \E p \in Cells : AddPlayer(p)
  \/ TickTurning

SpecSync == Init /\ [][NextSync]_vars

\* a player, a box and three of the steering keys, held in every
\* combination: alone, two at right angles, two opposite, all three
NextSteer ==
  \/ \E p \in Cells : AddObject("box", p)
  \/ \E p \in Cells : AddPlayer(p)
  \/ \E k \in {"w", "a", "d"} : SteerKeyPress(k)
  \/ \E k \in {"w", "a", "d"} : SteerKeyRelease(k)
  \/ ResetSimulation
  \/ Tick

SpecSteer == Init /\ [][NextSteer]_vars

\* coins and a player through resets and gravity changes, with a steering
\* key held or not
NextReset ==
  \/ \E p \in Cells : AddObjectWithin(MaxResetSpawns, "coin", p)
  \/ \E p \in Cells : AddPlayerWithin(MaxResetSpawns, p)
  \/ \E value \in GravityXValues : UpdateGravityX(value)
  \/ \E value \in GravityYValues : UpdateGravityY(value)
  \/ SteerKeyPress("d")
  \/ SteerKeyRelease("d")
  \/ ResetSimulation
  \/ Tick

SpecReset == Init /\ [][NextReset]_vars

\* everything that happens to a world of coins and a player: spawns,
\* resets, gravity, the pointer, the wheel and an arrow key
NextScore ==
  \/ \E p \in Cells : AddObject("coin", p)
  \/ \E p \in Cells : AddPlayer(p)
  \/ \E value \in GravityYValues : UpdateGravityY(value)
  \/ \E p \in Cells : OnMousePress(p)
  \/ OnMouseRelease
  \/ \E p \in Cells : OnMouseMotion(p)
  \/ OnMouseWheel(1)
  \/ OnKeyPress("left")
  \/ ResetSimulation
  \/ Tick

SpecScore == Init /\ [][NextScore]_vars

\* ------------------------------------------------------------- properties
\* the last operation was a whole tick and none has run since
AfterTick == pc = "idle" /\ lastOp.op = "tick"

Created == 1..Len(ent)

\* C1: right after reset_simulation returns, the registry of live entities
\* is empty, the score is 0, there is no controllable object and the camera
\* is at offset (0, 0) with zoom 1.0
ResetClearsAll ==
  lastOp.op = "reset" =>
    /\ entities = <<>>
    /\ score = 0
    /\ controllable_object = None
    /\ camera = [offset_x |-> <<0, 1>>, offset_y |-> <<0, 1>>, zoom |-> ZOOM_ONE]

\* a reset of a world with two entities made, one of them a collected coin
ResetClearsAllWitness ==
  /\ lastOp.op = "reset"
  /\ Len(ent) >= 2
  /\ \E e \in Created : ent[e].marked_for_removal

\* C2: when a tick ends, every coin whose contact with the player began in
\* its step is out of the registry and its body and shape are out of the
\* Space, the registry lost exactly those coins, and the score grew by the
\* coin value once for each of them
CoinCollectedByTickEnd ==
  AfterTick =>
    /\ \A c \in lastOp.hit :
         /\ c \notin RangeOf(entities)
         /\ c \notin space.bodies
         /\ ShapeOf(c) \notin space.shapes
    /\ Len(entities) = lastOp.n0 - Cardinality(lastOp.hit)
    /\ score = lastOp.score0 + CoinValue * Cardinality(lastOp.hit)

\* a tick in which the player touched a coin has ended
CoinCollectedWitness == AfterTick /\ lastOp.hit # {}

\* C3: the Space never holds more than one drag constraint
AtMostOneDragConstraint == Cardinality(space.constraints) <= 1

ReleaseDetachesDrag ==
  lastOp.op = "release" =>
    /\ space.constraints = {}
    /\ mouse_joint = NoJoint
    /\ selected_shape_drag = NoShape

\* C6: kill_entity on an entity already removed changes nothing and raises
\* nothing; on any entity it takes exactly that entity's body, shape and
\* sprite away and a second call changes nothing more; on_mouse_release
\* with no joint changes nothing
RemovalIdempotent ==
  /\ \A e \in Created :
       LET w == KillEntity(World, e) IN
         /\ e \notin RangeOf(entities) => w = World
         /\ KillEntity(w, e) = w
         /\ w.err = err
         /\ w.space = [space EXCEPT !.bodies = @ \ {e}, !.shapes = @ \ {ShapeOf(e)}]
         /\ w.sprites = all_sprites \ {e}
  /\ lastOp.op = "kill_entity" => err = ""
  /\ mouse_joint = NoJoint => MouseRelease(Drag) = Drag
  /\ (lastOp.op = "release" /\ lastOp.before.mouse_joint = NoJoint) =>
       DragState = lastOp.before /\ err = ""

\* kill_entity ran again on a removed entity while another entity is live
RemovalIdempotentWitness ==
  /\ lastOp.op = "kill_entity"
  /\ entities # <<>>
  /\ space.bodies # {}

\* the controllable entity is live
PlayerLive == controllable_object # None /\ Alive(controllable_object)

\* the physics step of the current or last tick has returned
Stepped == pc \in {"keys", "steer", "sweep", "draw"} \/ AfterTick

\* the steering block of the current or last tick has run
Steered == pc \in {"sweep", "draw"} \/ AfterTick

NoRemovalDuringStep ==
  pc = "contacts" =>
    /\ Len(entities) = lastOp.n0
    /\ \A e \in RangeOf(entities) :
         Alive(e) /\ e \in space.bodies /\ ShapeOf(e) \in space.shapes
    /\ touching = Contacts(space, ent)

\* a callback of the running step has marked a coin, which is still in place
NoRemovalDuringStepWitness ==
  /\ pc = "contacts"
  /\ \E e \in RangeOf(entities) : ent[e].marked_for_removal /\ e \in space.bodies

\* C9: at the draw and between ticks no marked entity is in the registry;
\* a marked entity is never drawn, never the steered entity and holds no
\* steering force, and once the update loop has passed it its rect was
\* not synchronised and its sprite, body and shape are gone
MarkedNeverUsed ==
  /\ pc \in {"draw", "idle"} =>
       \A e \in Created : ent[e].marked_for_removal =>
         /\ e \notin RangeOf(entities)
         /\ ~ent[e].synced
         /\ ~Alive(e) /\ e \notin space.bodies /\ ShapeOf(e) \notin space.shapes
  /\ pc = "draw" => \A e \in Drawn : ~ent[e].marked_for_removal
  /\ \A e \in Created : ent[e].marked_for_removal =>
       e # controllable_object /\ ent[e].force = NoForce

\* the render of a tick whose step marked a coin
MarkedNeverUsedWitness ==
  /\ pc = "draw"
  /\ lastOp.hit # {}
  /\ \E e \in Created : ent[e].marked_for_removal

\* C10: an entity is in the registry exactly when its body is in the Space
\* and exactly when its shape is; every entity shape in the Space is the
\* one shape of its entity and its body is in the Space
RegistryMatchesSpace ==
  /\ \A e \in Created :
       /\ e \in RangeOf(entities) <=> e \in space.bodies
       /\ e \in space.bodies <=> ShapeOf(e) \in space.shapes
  /\ \A s \in space.shapes \ Boundaries :
       /\ ShapeBody(s) \in space.bodies
       /\ s = ShapeOf(ShapeBody(s))
  /\ space.bodies \subseteq Created

\* a box was made and removed while another entity is registered
RegistryMatchesSpaceWitness ==
  /\ \E e \in Created : ent[e].kind = "box" /\ e \notin RangeOf(entities)
  /\ entities # <<>>

\* C11: no step of the program moves a Bouncer's body (the cell stands
\* for position and orientation, which space.step integrates together), so
\* it stays where it was spawned; no step leaves a force or an impulse on
\* it or a drag joint or drag selection that refers to it
BouncerNeverMoves ==
  [][\A e \in Created : ent[e].kind = "bouncer" =>
       /\ ent'[e].kind = "bouncer"
       /\ ent'[e].body_type = "STATIC"
       /\ ent'[e].pos = ent[e].pos
       /\ ent'[e].force = NoForce
       /\ ~ent'[e].impulse
       /\ ShapeBody(selected_shape_drag' \o <<0>>) # e
       /\ mouse_joint'.b # e
       /\ \A j \in space'.constraints : j.b # e]_vars

\* a step in which a body that has moved hit a Bouncer and got its impulse
\* (its rect still shows the cell it left)
BouncerNeverMovesWitness ==
  /\ pc = "contacts"
  /\ \E b, d \in Created :
       /\ ent[b].kind = "bouncer"
       /\ ent[d].impulse
       /\ ent[d].pos = ent[b].pos
       /\ ent[d].rect # ent[d].pos

\* C12: a spawn request with a tag other than ball, box, bouncer or coin
\* constructs nothing and raises nothing: the entities, the registry, the
\* sprite group, the Space, the score, the camera and the controllable
\* object are as before
UnknownSpawnIsNoOp ==
  [][(lastOp' # lastOp /\ lastOp'.op = "spawn"
        /\ lastOp'.tag \notin {"ball", "box", "bouncer", "coin", "player"}) =>
       /\ UNCHANGED <<ent, entities, all_sprites, space, score, camera,
                      controllable_object>>
       /\ err' = ""]_vars

\* an unknown tag was requested in a world with an entity and a score
UnknownSpawnWitness ==
  /\ lastOp.op = "spawn"
  /\ lastOp.tag = "unknown"
  /\ entities # <<>>
  /\ score > 0

\* C13: the registry never holds more than one Controllable entity;
\* controllable_object, when set, is that entity, registered and alive;
\* every earlier Controllable is out of the registry, the sprite group and
\* the Space; and no operation has raised (list.remove in add_player_gui
\* always finds the old player)
SingleControllable ==
  /\ Cardinality({e \in RangeOf(entities) : ent[e].kind = "player"}) <= 1
  /\ controllable_object # None =>
       /\ controllable_object \in RangeOf(entities)
       /\ ent[controllable_object].kind = "player"
       /\ Alive(controllable_object)
  /\ \A e \in Created : (ent[e].kind = "player" /\ e # controllable_object) =>
       /\ e \notin RangeOf(entities)
       /\ ~Alive(e)
       /\ e \notin space.bodies
       /\ ShapeOf(e) \notin space.shapes
  /\ err = ""

\* a second Controllable was just spawned over a live one
SingleControllableWitness ==
  /\ lastOp.op = "spawn"
  /\ lastOp.tag = "player"
  /\ \E e \in Created : ent[e].kind = "player" /\ e # controllable_object
  /\ ent[controllable_object].kind = "player"

\* C14: the zoom is always within [MIN_ZOOM, MAX_ZOOM]; a wheel event moves
\* it by exactly ZOOM_SPEED in its direction, or to the bound when that
\* would pass it, and leaves the pan offset as it was
ZoomClamped ==
  /\ MIN_ZOOM <= camera.zoom /\ camera.zoom <= MAX_ZOOM
  /\ lastOp.op = "wheel" =>
       /\ camera.offset_x = lastOp.cam0.offset_x
       /\ camera.offset_y = lastOp.cam0.offset_y
       /\ camera.zoom =
            IF lastOp.dir > 0
              THEN IF lastOp.cam0.zoom + ZOOM_SPEED <= MAX_ZOOM
                     THEN lastOp.cam0.zoom + ZOOM_SPEED ELSE MAX_ZOOM
              ELSE IF lastOp.cam0.zoom - ZOOM_SPEED >= MIN_ZOOM
                     THEN lastOp.cam0.zoom - ZOOM_SPEED ELSE MIN_ZOOM

\* a zoom-in at the upper bound of a panned camera
ZoomClampedWitness ==
  /\ lastOp.op = "wheel"
  /\ lastOp.dir > 0
  /\ lastOp.cam0.zoom = MAX_ZOOM
  /\ camera.offset_x # <<0, 1>>

\* world points the transforms are tried on: whole and fractional
\* coordinates, on both sides of the origin, and the centre of the view
WorldPoints ==
  {<<<<0, 1>>, <<0, 1>>>>, <<<<1, 2>>, <<-7, 1>>>>, <<<<50, 1>>, <<50, 1>>>>,
   <<<<-7, 1>>, <<1, 1>>>>, <<<<1, 1>>, <<1, 2>>>>, <<<<500, 1>>, <<300, 1>>>>}

\* a pixel position as a point with fractional coordinates
Pixel(s) == <<Int2Rat(s[1]), Int2Rat(s[2])>>

\* the world point the round trip through screen position s gives back is
\* less than one pixel (1 / zoom world units) or exactly one away from w
WithinOnePixel(cam, s, w) ==
  LET r == ScreenToWorld(cam, Pixel(s))
  IN  /\ RatLeq(RatMul(RatAbs(RatSub(r[1], w[1])), ZoomOf(cam)), Int2Rat(1))
      /\ RatLeq(RatMul(RatAbs(RatSub(r[2], w[2])), ZoomOf(cam)), Int2Rat(1))

\* C15 as stated: screen_to_world(apply(w)) gives back w, for every world
\* point, under the rounding most favourable to it
RoundTripExact ==
  \A w \in WorldPoints :
    \E s \in Apply(camera, w, FALSE) : ScreenToWorld(camera, Pixel(s)) = w

\* C15: screen_to_world(apply(w)) gives back a point at most one pixel,
\* that is 1 / zoom world units, away from w on each axis; it gives back w
\* itself whenever apply lost nothing to the conversion to whole pixels
RoundTripWithinOnePixel ==
  \A w \in WorldPoints :
    \A s \in Apply(camera, w, FALSE) :
      /\ WithinOnePixel(camera, s, w)
      /\ Pixel(s) = Project(camera, w) => ScreenToWorld(camera, Pixel(s)) = w

\* a zoomed and panned camera under which some point does not come back
RoundTripWitness ==
  /\ camera.zoom = MIN_ZOOM
  /\ camera.offset_x # <<0, 1>>
  /\ \E w \in WorldPoints :
       \E s \in Apply(camera, w, FALSE) :
         /\ ScreenToWorld(camera, Pixel(s)) # w
         /\ Pixel(s)[1] # Project(camera, w)[1]

\* (world - pan) * zoom + viewCenter * (1 - zoom) on one axis
Formula(cam, x, off, half) ==
  RatAdd(RatMul(RatSub(x, off), ZoomOf(cam)),
         RatMul(half, RatSub(Int2Rat(1), ZoomOf(cam))))

FormulaAt(cam, w) ==
  <<Formula(cam, w[1], cam.offset_x, ViewCenter[1]),
    Formula(cam, w[2], cam.offset_y, ViewCenter[2])>>

\* the pixel coordinate n is the value x cut to a whole number toward zero,
\* or one short of a whole x
Truncated(n, x) ==
  \/ n = Trunc(x)
  \/ x[2] = 1 /\ n = x[1] - Sgn(x[1])

\* the world point shown at the centre of the view
CenterWorld(cam) ==
  <<RatAdd(cam.offset_x, ViewCenter[1]), RatAdd(cam.offset_y, ViewCenter[2])>>

\* C16 as stated: apply(w) is (w - pan) * zoom + viewCenter * (1 - zoom)
\* on each axis, for every world point, under the rounding most favourable
\* to it
ApplyIsFormula ==
  \A w \in WorldPoints :
    \E s \in Apply(camera, w, FALSE) : Pixel(s) = FormulaAt(camera, w)

\* C16: apply(w) is (w - pan) * zoom + viewCenter * (1 - zoom) on each axis
\* cut to a whole pixel toward zero; the world point shown at the centre of
\* the view is drawn at the centre pixel or one pixel short of it, at every
\* zoom and pan
ApplyTruncatesFormula ==
  /\ \A w \in WorldPoints :
       \A s \in Apply(camera, w, FALSE) :
         /\ Truncated(s[1], FormulaAt(camera, w)[1])
         /\ Truncated(s[2], FormulaAt(camera, w)[2])
  /\ FormulaAt(camera, CenterWorld(camera)) = ViewCenter
  /\ \A s \in Apply(camera, CenterWorld(camera), FALSE) :
       /\ s[1] \in {SCREEN_WIDTH \div 2 - 1, SCREEN_WIDTH \div 2}
       /\ s[2] \in {SCREEN_HEIGHT \div 2 - 1, SCREEN_HEIGHT \div 2}

\* a zoomed and panned camera that projects some point between two pixels
ApplyTruncatesWitness ==
  /\ camera.zoom = MAX_ZOOM - ZOOM_SPEED
  /\ camera.offset_y # <<0, 1>>
  /\ \E w \in WorldPoints :
       /\ Project(camera, w)[2][2] # 1
       /\ Apply(camera, w, FALSE) # {}

\* the camera with its zoom assigned the literal 2.0
ZoomSetToTwo == [camera EXCEPT !.zoom = 2 * ZOOM_ONE]

Unpanned == camera.offset_x = Int2Rat(0) /\ camera.offset_y = Int2Rat(0)

\* C17 as stated: with zoom 2.0 and pan (0, 0) in the 1000 x 600 view,
\* apply((50, 50)) is (350, 50)
ApplyConcreteAsStated ==
  Unpanned => <<350, 50>> \in Apply(ZoomSetToTwo, Pixel(<<50, 50>>), TRUE)

\* C17: with zoom 2.0 and pan (0, 0) in the 1000 x 600 view,
\* apply((50, 50)) is (-400, -200): 50 * 2 + 500 * (1 - 2) and
\* 50 * 2 + 300 * (1 - 2)
ApplyConcrete ==
  Unpanned => Apply(ZoomSetToTwo, Pixel(<<50, 50>>), TRUE) = {<<-400, -200>>}

\* an unpanned camera zoomed to 2.0
ApplyConcreteWitness ==
  /\ Unpanned
  /\ camera.zoom = 2 * ZOOM_ONE
  /\ <<-400, -200>> \in Apply(camera, Pixel(<<50, 50>>), FALSE)

\* the pairs of shapes in the Space, in either order, that have a Bouncer
\* shape among them
BouncerPairs ==
  {o \in space.shapes \X space.shapes :
     o[1] # o[2] /\ COLLISION_TYPE_BOUNCER \in {CollisionType(o[1]), CollisionType(o[2])}}

\* the shape the reaction is aimed at: the one that is not the Bouncer, or
\* the second of two Bouncers
OtherOf(o) == IF CollisionType(o[1]) = COLLISION_TYPE_BOUNCER THEN o[2] ELSE o[1]

\* the entities after an impulse on the body of shape s, if it is DYNAMIC
Kicked(s) ==
  [e \in DOMAIN ent |->
     IF e = ShapeBody(s) /\ ent[e].body_type = "DYNAMIC"
       THEN [ent[e] EXCEPT !.impulse = TRUE] ELSE ent[e]]

\* C18: the begin callback of a contact with a Bouncer shape, in either
\* order of the two shapes, puts an impulse on the other body if and only
\* if that body is DYNAMIC, changes nothing else (not the Bouncer, not a
\* second Bouncer, not a boundary) and returns accept; every begin-contact
\* of a step with a Bouncer runs it and the contact is kept
BouncerReaction ==
  [][/\ \A o \in BouncerPairs :
          LET h == BouncerInteractionBegin(Handled, o) IN
            /\ h.accept
            /\ h.ent = Kicked(OtherOf(o))
            /\ h.score = score /\ h.w = World /\ h.entities = entities
     /\ (pc = "contacts" /\ pending # {} /\ pending' # pending
           /\ COLLISION_TYPE_BOUNCER \in TypesOf(NextContact)) =>
          LET other == CHOOSE s \in NextContact :
                         CollisionType(s) # COLLISION_TYPE_BOUNCER
          IN  /\ BodyType(ShapeBody(other)) = "DYNAMIC"
              /\ ent' = Kicked(other)
              /\ ent'[ShapeBody(other)].impulse
              /\ touching' = touching
              /\ UNCHANGED <<score, space, all_sprites, entities>>]_vars

\* the step has run the callback of a body that hit a Bouncer, in a Space
\* that also holds a static shape (a boundary, another Bouncer) next to one
BouncerReactionWitness ==
  /\ pc = "contacts"
  /\ pending = {}
  /\ \E e \in Created : ent[e].kind \in {"box", "ball", "player", "coin"} /\ ent[e].impulse
  /\ \E o \in BouncerPairs : BodyType(ShapeBody(OtherOf(o))) = "STATIC"

PlayerCoin == {COLLISION_TYPE_PLAYER, COLLISION_TYPE_COIN}

\* the marked_for_removal flags of a sequence of entities
Marks(es) == [e \in DOMAIN es |-> es[e].marked_for_removal]

\* the pairs of distinct shapes in the Space, in either order, with the
\* shape of an entity among them
ShapePairs ==
  {o \in space.shapes \X space.shapes :
     o[1] # o[2] /\ (HasParentSprite(o[1]) \/ HasParentSprite(o[2]))}

\* the callback of a contact whose collision types are not PLAYER and COIN
\* changes neither the score nor a marked_for_removal flag, and nothing at
\* all when no Bouncer is in the contact
NoReaction ==
  \A o \in ShapePairs :
    TypesOf({o[1], o[2]}) # PlayerCoin =>
      LET h == Dispatch(Handled, o) IN
        /\ h.score = score
        /\ Marks(h.ent) = Marks(ent)
        /\ h.w = World /\ h.entities = entities
        /\ COLLISION_TYPE_BOUNCER \notin TypesOf({o[1], o[2]}) => h.ent = ent

\* C19: only a Coin is ever marked for removal; the callback of a contact
\* whose collision types are not PLAYER and COIN changes neither the score
\* nor a marked_for_removal flag, and changes nothing at all when no Bouncer
\* is in it; this holds for every pair of shapes in the Space and for every
\* begin-contact a step reports, where a PLAYER-COIN contact adds the coin's
\* value and marks the coin
OnlyPlayerCoinScores ==
  /\ [](\A e \in Created : ent[e].marked_for_removal => ent[e].kind = "coin")
  /\ []NoReaction
  /\ [][(pc = "contacts" /\ pending # {} /\ pending' # pending) =>
          IF TypesOf(NextContact) = PlayerCoin
            THEN /\ score' = score + CoinValue
                 /\ \E coin \in Created :
                      /\ ent[coin].kind = "coin"
                      /\ ShapeOf(coin) \in NextContact
                      /\ ent' = [ent EXCEPT ![coin].marked_for_removal = TRUE]
            ELSE /\ score' = score
                 /\ Marks(ent') = Marks(ent)]_vars

\* the step has run the callback of a coin that hit a Bouncer: the coin got
\* the impulse and is not marked
OnlyPlayerCoinScoresWitness ==
  /\ pc = "contacts"
  /\ pending = {}
  /\ \E e \in Created :
       /\ ent[e].kind = "coin"
       /\ ent[e].impulse
       /\ ~ent[e].marked_for_removal
       /\ \E c \in touching : ShapeOf(e) \in c /\ COLLISION_TYPE_BOUNCER \in TypesOf(c)

\* what the program holds apart from the position of the loop
ProgramState ==
  <<ent, entities, all_sprites, space, touching, controllable_object, score, camera,
    pressed_keys, mouse_body, mouse_joint, selected_shape_drag, running, pending, err,
    stepForce>>

\* the positions a tick passes through, in order: one physics step with its
\* callbacks, then the blocks after it, then the wait for the next tick
TickPath ==
  {<<"idle", "contacts">>, <<"contacts", "keys">>, <<"keys", "steer">>,
   <<"steer", "sweep">>, <<"sweep", "draw">>, <<"draw", "idle">>}

\* the step is the click of a spawn button of the side panel, which is not a
\* pointer event on the canvas (a right click asks for a ball)
ButtonSpawn == lastOp'.op = "spawn" /\ lastOp'.tag # "ball"

\* C20: while running is false a tick and a pointer press, release, motion,
\* wheel or right click change no state; the tick that finds running false
\* ends the loop, which then never starts a tick again; while running is
\* true a tick starts with its one physics step, passes through its blocks
\* in order and ends scheduled for the next tick
StoppedIsInert ==
  [][/\ (~running /\ ~ButtonSpawn) =>
          /\ UNCHANGED ProgramState
          /\ pc' \in {pc, "cancelled"}
          /\ (lastOp'.op = "tick" /\ pc = "idle") => pc' = "cancelled"
     /\ pc = "cancelled" => pc' = "cancelled"
     /\ (running /\ pc' # pc) =>
          /\ <<pc, pc'>> \in TickPath
          /\ running'
          /\ pc = "idle" => touching' = Contacts(space, ent')]_vars

\* a press on a dynamic shape came after the loop had ended and made no
\* joint
StoppedIsInertWitness ==
  /\ ~running
  /\ pc = "cancelled"
  /\ lastOp.op = "press"
  /\ BodyType(ShapeBody(lastOp.near \o <<0>>)) = "DYNAMIC"
  /\ mouse_joint = NoJoint

\* the whole numbers a and b are at most n apart
Near(a, b, n) == a - b <= n /\ b - a <= n

\* every arrow key held is held together with its opposite
OppositeOnly(keys) ==
  /\ ("left" \in keys) = ("right" \in keys)
  /\ ("up" \in keys) = ("down" \in keys)

PresentationSynced ==
  /\ [](AfterTick =>
          \A e \in RangeOf(entities) :
            /\ ~ent[e].marked_for_removal
            /\ ent[e].body_type = "DYNAMIC" =>
                 /\ ent[e].rect = ent[e].pos
                 /\ ent[e].image + 90 * ent[e].angle = 0
            /\ ent[e].body_type = "STATIC" =>
                 /\ ent[e].rect = ent[e].pos
                 /\ ent[e].image = 0)
  /\ [][\A e \in Created :
          ent[e].body_type = "STATIC" =>
            /\ ent'[e].rect = ent[e].rect
            /\ ent'[e].image = ent[e].image
            /\ ent'[e].pos = ent[e].pos]_vars

\* a tick has ended with a body moved and turned, next to a Bouncer
PresentationSyncedWitness ==
  /\ AfterTick
  /\ \E e \in RangeOf(entities) :
       /\ ent[e].body_type = "DYNAMIC"
       /\ ent[e].angle # 0
       /\ ent[e].image # 0
       /\ ent[e].synced
  /\ \E e \in RangeOf(entities) : ent[e].body_type = "STATIC"

\* the square of the length of a force whose components are whole numbers
\* or whole multiples of sqrt(2)
MagnitudeSq(f) ==
  f[1][1] * f[1][1] + 2 * f[1][2] * f[1][2] + f[2][1] * f[2][1] + 2 * f[2][2] * f[2][2]

\* the component x of a force points the way d does
Points(x, d) == Sgn(x[1] + x[2]) = Sgn(d) /\ (x[1] = 0 \/ x[2] = 0)

\* the force the step added to entity e
Added(e) ==
  <<SurdSub(ent'[e].force[1], ent[e].force[1]), SurdSub(ent'[e].force[2], ent[e].force[2])>>

\* C23: the W/A/S/D block of a tick changes nothing unless the controllable
\* entity exists, is alive and the keys held give a direction other than
\* (0, 0); it then adds a force to the body of that entity only, with no
\* torque, pointing the way the keys do and of length force_magnitude,
\* for one key and for two; with no controllable entity (before the first
\* player, after a reset) no force is applied
SteeringForceApplied ==
  [][(pc = "steer" /\ pc' # pc) =>
       LET dir == ForceDir(pressed_keys)
           net == << (IF "d" \in pressed_keys /\ "a" \notin pressed_keys THEN 1 ELSE 0)
                       - (IF "a" \in pressed_keys /\ "d" \notin pressed_keys THEN 1 ELSE 0),
                     (IF "s" \in pressed_keys /\ "w" \notin pressed_keys THEN 1 ELSE 0)
                       - (IF "w" \in pressed_keys /\ "s" \notin pressed_keys THEN 1 ELSE 0) >>
           applied == /\ controllable_object # None
                      /\ Alive(controllable_object)
                      /\ net # <<0, 0>>
       IN  /\ dir = net
           /\ \A e \in Created : e # controllable_object => ent'[e] = ent[e]
           /\ ~applied => ent' = ent
           /\ applied =>
                /\ ent[controllable_object].kind = "player"
                /\ ent'[controllable_object] =
                     [ent[controllable_object] EXCEPT
                        !.force = ent'[controllable_object].force]
                /\ MagnitudeSq(Added(controllable_object)) =
                     FORCE_MAGNITUDE * FORCE_MAGNITUDE
                /\ Points(Added(controllable_object)[1], net[1])
                /\ Points(Added(controllable_object)[2], net[2])]_vars

\* the block has just pushed the player diagonally while a box lies in the
\* Space and a third key, opposite to one of the two, is not held
SteeringForceWitness ==
  /\ pc = "sweep"
  /\ pressed_keys = {"w", "d"}
  /\ PlayerLive
  /\ ent[controllable_object].force = <<<<0, FORCE_MAGNITUDE \div 2>>, <<0, -(FORCE_MAGNITUDE \div 2)>>>>
  /\ \E e \in RangeOf(entities) : ent[e].kind = "box"

\* C24: the body of every drag constraint in the Space is in the Space and
\* belongs to a registered entity
DraggedBodyLive ==
  \A j \in space.constraints :
    /\ j.b \in space.bodies
    /\ j.b \in RangeOf(entities)

\* the coins that the step collects: CoinEntity.on_collected marks them
NewlyCollected ==
  {e \in DOMAIN ent : /\ ent[e].kind = "coin"
                      /\ ~ent[e].marked_for_removal
                      /\ ent'[e].marked_for_removal}

\* the step is a begin callback for a contact of the player with a coin
PlayerCoinBegin ==
  /\ pc = "contacts"
  /\ pending # {}
  /\ TypesOf(NextContact) = {COLLISION_TYPE_PLAYER, COLLISION_TYPE_COIN}

\* C25: the score is a non-negative multiple of the coin value; it starts at
\* 0, reset_simulation sets it to 0 and every other step adds the coin value
\* once for each coin the step collects, so that it is the coin value times
\* the number of coins collected since the last reset; it changes only in a
\* PLAYER-COIN begin callback (by the coin value) and in reset_simulation
ScoreCountsCoins ==
  /\ [](score >= 0 /\ score % CoinValue = 0)
  /\ [](lastOp.op = "init" => score = 0)
  /\ [][IF lastOp'.op = "reset"
          THEN score' = 0
          ELSE score' = score + CoinValue * Cardinality(NewlyCollected)]_vars
  /\ [][score' # score =>
          \/ lastOp'.op = "reset"
          \/ PlayerCoinBegin /\ score' = score + CoinValue]_vars

\* a coin has been collected and later a reset has put the score back to 0,
\* in a run with a drag, a wheel or key event and a gravity change
ScoreCountsCoinsWitness ==
  /\ lastOp.op = "reset"
  /\ score = 0
  /\ \E e \in DOMAIN ent : ent[e].kind = "coin" /\ ent[e].marked_for_removal
  /\ mouse_joint # NoJoint
  /\ inputs > 0
  /\ space.gravity # GravityInit

\* what reset_simulation is to remove: the bodies and shapes of the
\* registered entities
RegisteredShapes == {ShapeOf(e) : e \in RangeOf(entities)}

\* the entity world of a simulation that has just been constructed
FreshWorld ==
  /\ space.bodies = {}
  /\ space.shapes = Boundaries
  /\ space.handlers = Handlers
  /\ entities = <<>>
  /\ all_sprites = {}
  /\ controllable_object = None
  /\ score = 0
  /\ camera = CameraInit
  /\ err = ""

\* C26: reset_simulation removes the bodies and shapes of the entities and
\* nothing else from the Space: the four boundary segments stay, gravity,
\* the collision handlers, the keys held and the running flag are as before,
\* and what is left is the world of a fresh simulation with that gravity
ResetKeepsWorld ==
  /\ [](lastOp.op = "reset" => FreshWorld /\ Cardinality(Boundaries) = 4)
  /\ [][lastOp'.op = "reset" =>
          /\ space'.bodies = space.bodies \ RangeOf(entities)
          /\ space'.shapes = space.shapes \ RegisteredShapes
          /\ Boundaries \subseteq space'.shapes
          /\ space'.constraints = space.constraints
          /\ space'.gravity = space.gravity
          /\ space'.handlers = space.handlers
          /\ pressed_keys' = pressed_keys
          /\ running' = running]_vars

\* a coin is collected after a reset that removed a coin, under a gravity
\* set on the sliders and with a steering key held
ResetKeepsWorldWitness ==
  /\ score = CoinValue
  /\ \E e \in DOMAIN ent : /\ ent[e].kind = "coin"
                           /\ ~ent[e].marked_for_removal
                           /\ e \notin RangeOf(entities)
  /\ space.gravity = <<1000, 2000>>
  /\ pressed_keys = {"d"}
  /\ Boundaries \subseteq space.shapes

\* C27: mouse_joint is set exactly when selected_shape_drag is set; the joint
\* is then a constraint of the Space that ties self.mouse_body to the body
\* of the selected shape, and that body was DYNAMIC when on_mouse_press
\* made the joint
DragStateConsistent ==
  /\ []((mouse_joint # NoJoint) <=> (selected_shape_drag # NoShape))
  /\ [](mouse_joint # NoJoint =>
          /\ mouse_joint \in space.constraints
          /\ mouse_joint.a = "mouse_body"
          /\ mouse_joint.b = ShapeBody(selected_shape_drag))
  /\ [][mouse_joint' # mouse_joint /\ mouse_joint' # NoJoint =>
          /\ mouse_joint'.b \in DOMAIN ent
          /\ ent[mouse_joint'.b].body_type = "DYNAMIC"
          /\ mouse_joint' \notin space.constraints]_vars

\* a second press made a joint while the first was still set
DragStateConsistentWitness ==
  /\ lastOp.op = "press"
  /\ lastOp.made
  /\ lastOp.before.mouse_joint # NoJoint
  /\ mouse_joint # lastOp.before.mouse_joint

====
